---- MODULE Spec2Model ----
(***************************************************************************)
(* halapi-js client: createHalapiClient (client.ts).  The model follows    *)
(* one call of one client operation from its invocation to its outcome.    *)
(* chatStream is an async generator: its position (pc) moves only when the *)
(* consumer drives it (next / return / throw) or when an awaited promise   *)
(* (getConfig, fetch, reader.read) settles.                                *)
(*                                                                         *)
(* Bytes and characters are one-element strings.  "C3" "A9" is the two     *)
(* byte UTF-8 encoding of the character U+00E9, written "U+E9"; "FFFD" is   *)
(* U+FFFD.                                                                 *)
(***************************************************************************)
EXTENDS Integers, Sequences, FiniteSets, TLC

\* ------------------------------------------------------------------ bounds
\* Largest number of newline-terminated lines in a response body.
MaxLines == 2

\* ------------------------------------------------------- program constants
\* line.slice(6): the length of the 'data: ' prefix.
PrefixLen == 6
\* getBookPresentations: at most 100 ISBN-13s per request.
MaxIsbn == 100

NULL == "null"
NoStatus == -1

\* --------------------------------------------------------------- wire text
NL == "\n"
DataPrefix == <<"d", "a", "t", "a", ":", " ">>

\* The events this model sends, each named by one character of its JSON
\* text: "U+E9" a text-delta whose delta holds a two-byte character, "D" a
\* done event (its data carries conversationId c1 and messageId m1).
EventTags == {"U+E9", "D"}

\* UTF-8 bytes of one character (TextEncoder on the server side).
Utf8(ch) == IF ch = "U+E9" THEN <<"C3", "A9">> ELSE <<ch>>

\* The kinds of line a body is built from, and the bytes of each (without
\* the terminating newline).  The comment line holds a JSON text from its
\* seventh character on.
RecordKinds == {"T", "D"}
LineKinds == RecordKinds \cup {"bad", "comment", "empty", "nospace"}
KindTag(kind) == IF kind = "T" THEN "U+E9" ELSE kind
LineBytes(kind) ==
  CASE kind \in RecordKinds -> DataPrefix \o <<"{">> \o Utf8(KindTag(kind)) \o <<"}">>
    [] kind = "bad"     -> DataPrefix \o <<"{", "D">>
    [] kind = "comment" -> <<":", "p", "i", "n", "g", " ", "{", "D", "}">>
    [] kind = "empty"   -> <<>>
    [] kind = "nospace" -> <<"d", "a", "t", "a", ":", "{", "D", "}">>

\* An unterminated tail of the body: nothing, or a complete record that
\* lacks its newline.
TailKinds == {"none", "T"}
TailBytes(tail) == IF tail = "none" THEN <<>> ELSE LineBytes(tail)

RECURSIVE BodyBytes(_, _)
BodyBytes(kinds, tail) ==
  IF kinds = <<>> THEN TailBytes(tail)
  ELSE LineBytes(Head(kinds)) \o <<NL>> \o BodyBytes(Tail(kinds), tail)

KindSeqs == UNION {[1..n -> LineKinds] : n \in 0..MaxLines}

\* ------------------------------------------------------------- TextDecoder
\* decoder.decode(value, {stream: true}): `pending` is the lead byte the
\* decoder holds back between calls.  Returns the text and the new pending.
RECURSIVE DecodeFrom(_, _, _)
DecodeFrom(pending, bytes, text) ==
  IF bytes = <<>> THEN [text |-> text, pending |-> pending]
  ELSE LET b == Head(bytes) IN
    IF pending # <<>>
    THEN IF b = "A9" THEN DecodeFrom(<<>>, Tail(bytes), text \o <<"U+E9">>)
         ELSE DecodeFrom(<<>>, bytes, text \o <<"FFFD">>)
    ELSE IF b = "C3" THEN DecodeFrom(<<b>>, Tail(bytes), text)
         ELSE IF b = "A9" THEN DecodeFrom(<<>>, Tail(bytes), text \o <<"FFFD">>)
         ELSE DecodeFrom(<<>>, Tail(bytes), text \o <<b>>)

\* DecodeNoStream: the call without {stream: true}; an incomplete sequence
\* at the end of the chunk is flushed as U+FFFD and nothing is held back.
DecodeNoStream(pending, bytes) ==
  LET r == DecodeFrom(<<>>, bytes, <<>>) IN
  [text |-> IF r.pending = <<>> THEN r.text ELSE r.text \o <<"FFFD">>,
   pending |-> <<>>]

Decode(pending, bytes) == DecodeFrom(pending, bytes, <<>>)

\* ------------------------------------------------------------ buffer.split
\* buffer.split('\n'): the segments between newlines, one more than the
\* number of newlines.
RECURSIVE SplitFrom(_, _, _)
SplitFrom(text, cur, acc) ==
  IF text = <<>> THEN Append(acc, cur)
  ELSE IF Head(text) = NL THEN SplitFrom(Tail(text), <<>>, Append(acc, cur))
  ELSE SplitFrom(Tail(text), Append(cur, Head(text)), acc)

Split(text) == SplitFrom(text, <<>>, <<>>)

\* buffer = lines.pop() ?? '': the last segment stays in the buffer
\* (PopDropped: the buffer emptied instead).
PopDropped(segs) == <<>>
Pop(segs) == segs[Len(segs)]

\* lines after the pop: the segments before the last one (FrontAll: the
\* last segment left among the lines).
FrontAll(segs) == segs
Front(segs) == SubSeq(segs, 1, Len(segs) - 1)

\* line.startsWith('data: ') (StartsWithDataUnchecked: no test).
StartsWithDataUnchecked(line) == TRUE
StartsWithData(line) ==
  Len(line) >= PrefixLen /\ SubSeq(line, 1, PrefixLen) = DataPrefix

\* line.slice(6)
Slice(line) == SubSeq(line, PrefixLen + 1, Len(line))

\* JSON.parse(payload): the JSON texts of this model are "{" tag "}".
\* Anything else is a SyntaxError (JSONParseLax: a parser that accepts a
\* text cut short).
JSONParseLax(payload) ==
  IF Len(payload) >= 2 /\ payload[1] = "{"
  THEN [ok |-> TRUE, event |-> payload[2]]
  ELSE [ok |-> FALSE, event |-> NULL]
JSONParse(payload) ==
  IF Len(payload) = 3 /\ payload[1] = "{" /\ payload[3] = "}"
     /\ payload[2] \in EventTags
  THEN [ok |-> TRUE, event |-> payload[2]]
  ELSE [ok |-> FALSE, event |-> NULL]

\* ------------------------------------------------------------ the client
Ops == {"chatStream", "getConversations", "getConversation",
        "getBookArtifacts", "getMusicArtifacts", "getBookPresentations"}

\* What the configuration provider may return as apiToken.
Tokens == {"", "tok"}

\* isConfigValid: Boolean(config.apiToken) (IsConfigValidAlways: no check).
IsConfigValidAlways(config) == TRUE
IsConfigValid(config) == config.apiToken # ""

\* response.ok: a status in 200..299 (OkBelow500: only server errors
\* rejected).
OkBelow500(status) == status >= 200 /\ status < 500
Ok(status) == status >= 200 /\ status <= 299

Statuses == {200, 404, 500}

\* The response headers the server may send: both identifier headers, or
\* the message identifier alone.
ConvHeader == "X-Conversation-Id"
MsgHeader == "X-Message-Id"
HeaderSets ==
  { [h \in {MsgHeader} |-> "m9"],
    [h \in {ConvHeader, MsgHeader} |-> IF h = ConvHeader THEN "c9" ELSE "m9"] }

\* response.headers.get(name): null for an absent header.
HeaderGet(headers, name) ==
  IF name \in DOMAIN headers THEN headers[name] ELSE NULL

\* The isbn13s list lengths tried.
IsbnCounts == {0, 1, MaxIsbn, MaxIsbn + 1}

\* What response.json() / response.text() finds in a non-streamed body.
TextKinds == {"empty", "json", "jsonWithErrorMessage", "invalid"}

\* Nothing returned by the provider yet, no response received yet.
NoConfig == [apiUrl |-> NULL, apiToken |-> NULL]
NoResponse == [status |-> 0, headers |-> <<>>, hasBody |-> FALSE, text |-> NULL]

NoError == [kind |-> "none", statusCode |-> NoStatus, message |-> ""]
HalapiError(message, statusCode) ==
  [kind |-> "HalapiError", statusCode |-> statusCode, message |-> message]
OtherError(kind, message) ==
  [kind |-> kind, statusCode |-> NoStatus, message |-> message]

VARIABLES
  op,             \* the client operation called
  isbnCount,      \* isbn13s.length (getBookPresentations)
  pc,             \* where the operation is
  config,         \* what getConfig() returned, NoConfig before
  providerCalls,  \* number of getConfig() calls
  fetchCalls,     \* number of fetchFn() calls
  response,       \* the Response fetchFn resolved to
  kinds, tail,    \* the lines and the unterminated tail of the streamed body
  pos,            \* number of body bytes the reader has delivered
  pending,        \* TextDecoder: bytes of an incomplete character
  buffer,         \* let buffer
  lines, idx,     \* const lines, and the position of the for loop in it
  conversationId, messageId,   \* the captured header values
  locked,         \* the body's read lock is held
  acquired,       \* number of getReader() calls
  released,       \* number of releaseLock() calls
  yielded,        \* the events handed to the consumer
  exit,           \* how the generator left its try block
  aborted,        \* options.signal.aborted
  caught,         \* what the catch block of the for loop caught at the
                  \* line just dealt with ("none": the last step caught
                  \* nothing)
  result,         \* the value the operation resolved to
  error           \* the error the operation threw

vars == <<op, isbnCount, pc, config, providerCalls, fetchCalls, response,
          kinds, tail, pos, pending, buffer, lines, idx, conversationId,
          messageId, locked, acquired, released, yielded, exit, aborted,
          caught, result, error>>

callVars == <<op, isbnCount>>
bodyVars == <<kinds, tail>>
decodeVars == <<pos, pending, buffer, lines, idx>>
lockVars == <<locked, acquired, released>>
idVars == <<conversationId, messageId>>

Body == BodyBytes(kinds, tail)

Init ==
  /\ op \in Ops
  /\ isbnCount \in IF op = "getBookPresentations" THEN IsbnCounts ELSE {0}
  /\ pc = "start"
  /\ config = NoConfig
  /\ providerCalls = 0
  /\ fetchCalls = 0
  /\ response = NoResponse
  /\ kinds = <<>> /\ tail = "none"
  /\ pos = 0 /\ pending = <<>> /\ buffer = <<>> /\ lines = <<>> /\ idx = 0
  /\ conversationId = NULL /\ messageId = NULL
  /\ locked = FALSE /\ acquired = 0 /\ released = 0
  /\ yielded = <<>>
  /\ exit = "none"
  /\ aborted = FALSE
  /\ caught = "none"
  /\ result = NULL
  /\ error = NoError

Fail(e) == pc' = "failed" /\ error' = e /\ UNCHANGED result

\* ------------------------------------------------------- every operation
\* getBookPresentations, before anything else: the isbn13s length checks
\* (IsbnTooManyOffByOne: the upper limit compared one too high).
IsbnTooFew(n) == n = 0
IsbnTooManyOffByOne(n) == n > MaxIsbn + 1
IsbnTooMany(n) == n > MaxIsbn

ValidateIsbns ==
  /\ pc = "start" /\ op = "getBookPresentations"
  /\ IF IsbnTooFew(isbnCount)
     THEN Fail(HalapiError("At least one ISBN-13 is required", NoStatus))
     ELSE IF IsbnTooMany(isbnCount)
     THEN Fail(HalapiError("Maximum 100 ISBN-13s allowed per request", NoStatus))
     ELSE pc' = "resolve" /\ UNCHANGED <<result, error>>
  /\ UNCHANGED <<callVars, aborted, caught, config, providerCalls, fetchCalls, response,
                 bodyVars, decodeVars, idVars, lockVars, yielded,
                 exit>>

\* The point at which an operation awaits getConfig(): its first statement,
\* for chatStream at the consumer's first next().
AtResolve ==
  \/ pc = "resolve"
  \/ pc = "start" /\ op # "getBookPresentations"

\* resolveConfig, the provider returning a configuration.
ResolveConfig ==
  /\ AtResolve
  /\ \E token \in Tokens :
       LET c == [apiUrl |-> "https://api", apiToken |-> token] IN
       /\ config' = c
       /\ IF IsConfigValid(c)
          THEN pc' = "fetch" /\ UNCHANGED <<result, error>>
          ELSE Fail(HalapiError("API token not configured", NoStatus))
  /\ providerCalls' = providerCalls + 1
  /\ UNCHANGED <<callVars, aborted, caught, fetchCalls, response, bodyVars, decodeVars,
                 idVars, lockVars, yielded, exit>>

\* resolveConfig, the provider throwing or its promise rejecting: the
\* provider's own error reaches the caller.
ProviderRejects ==
  /\ AtResolve
  /\ providerCalls' = providerCalls + 1
  /\ Fail(OtherError("ProviderError", "provider failed"))
  /\ UNCHANGED <<callVars, aborted, caught, config, fetchCalls, response, bodyVars,
                 decodeVars, idVars, lockVars, yielded, exit>>

\* The caller aborting options.signal.  The caller's code runs only while
\* the operation is suspended: awaiting fetchFn, awaiting reader.read(), or
\* at a yield.  From then on fetchFn and reader.read() reject.
Abort ==
  /\ op = "chatStream" /\ pc \in {"fetch", "read", "yielded"}
  /\ ~aborted
  /\ aborted' = TRUE
  /\ UNCHANGED <<callVars, caught, pc, config, providerCalls, fetchCalls,
                 response, bodyVars, decodeVars, idVars, lockVars, yielded,
                 exit, result, error>>

\* What a rejected fetchFn or reader.read() rejects with: the signal's
\* AbortError, or else a network failure.
RejectionKind == IF aborted THEN "AbortError" ELSE "TypeError"

\* The responses fetchFn may resolve to.  `text` is what response.json() or
\* response.text() finds in the body; for chatStream the body is also the
\* byte stream built from (kinds, tail).
Responses ==
  { [status |-> st, headers |-> h, hasBody |-> b, text |-> t] :
      st \in Statuses, h \in HeaderSets, b \in BOOLEAN, t \in TextKinds }

\* The combinations of response and streamed body that are told apart: a
\* bodiless response has neither text nor lines; a streamed body is not a
\* JSON document; the identifier headers vary on successful chatStream
\* responses, the text on the others.
Coherent(o, r, ks, tl) ==
  /\ ~r.hasBody => (r.text = "empty" /\ ks = <<>> /\ tl = "none")
  /\ o # "chatStream" => (ks = <<>> /\ tl = "none")
  /\ (o = "chatStream" /\ Ok(r.status)) => r.text = "empty"
  /\ (o = "chatStream" /\ ~Ok(r.status)) =>
       (tl = "none" /\ (ks # <<>> => r.text = "invalid"))
  /\ (o # "chatStream" \/ ~Ok(r.status)) =>
       DOMAIN r.headers = {ConvHeader, MsgHeader}

Fetch ==
  /\ pc = "fetch"
  /\ ~aborted
  /\ fetchCalls' = fetchCalls + 1
  /\ \E r \in Responses, ks \in KindSeqs, tl \in TailKinds :
       /\ Coherent(op, r, ks, tl)
       /\ response' = r
       /\ kinds' = ks /\ tail' = tl
  /\ pc' = "response"
  /\ UNCHANGED <<callVars, aborted, caught, config, providerCalls, decodeVars, idVars,
                 lockVars, yielded, exit, result, error>>

\* fetchFn rejecting: the signal was aborted or the network failed.
FetchRejects ==
  /\ pc = "fetch"
  /\ fetchCalls' = fetchCalls + 1
  /\ Fail(OtherError(RejectionKind, "fetch failed"))
  /\ UNCHANGED <<callVars, aborted, caught, config, providerCalls, response, bodyVars,
                 decodeVars, idVars, lockVars, yielded, exit>>

\* handleErrorResponse: the message comes from the body's error.message when
\* the body parses and has one; the status code is always attached.
ErrorMessage(r) ==
  IF r.text = "jsonWithErrorMessage" THEN "error.message" ELSE "HTTP status"
ErrorStatus(r) == r.status

HandleErrorResponse ==
  /\ pc = "response" /\ ~Ok(response.status)
  /\ Fail(HalapiError(ErrorMessage(response), ErrorStatus(response)))
  /\ UNCHANGED <<callVars, aborted, caught, config, providerCalls, fetchCalls, response,
                 bodyVars, decodeVars, idVars, lockVars, yielded,
                 exit>>

\* -------------------------------------------------------------- chatStream
\* After a line is dealt with: the next line of the chunk, or, the for loop
\* over, the next reader.read() (AfterLineBreak: the for loop left after
\* its first line).
AfterLineBreak(ls, i) == "read"
AfterLine(ls, i) == IF i > Len(ls) THEN "read" ELSE "lines"

\* finally { reader.releaseLock() } (ReleaseLockSkipped: no finally).
ReleaseLockSkipped == UNCHANGED lockVars
ReleaseLock == locked' = FALSE /\ released' = released + 1 /\ UNCHANGED acquired

\* return { conversationId, messageId } (StreamResultFromDone: the
\* identifiers of a done event preferred to the captured ones).
StreamResultFromDone ==
  IF \E i \in DOMAIN yielded : yielded[i] = "D"
  THEN [conversationId |-> "c1", messageId |-> "m1"]
  ELSE [conversationId |-> conversationId, messageId |-> messageId]
StreamResult == [conversationId |-> conversationId, messageId |-> messageId]

\* A successful response with a body: the two headers are captured and the
\* reader is acquired.
OpenReader ==
  /\ pc = "response" /\ op = "chatStream" /\ Ok(response.status)
  /\ response.hasBody
  /\ conversationId' = HeaderGet(response.headers, ConvHeader)
  /\ messageId' = HeaderGet(response.headers, MsgHeader)
  /\ locked' = TRUE /\ acquired' = acquired + 1 /\ UNCHANGED released
  /\ pending' = <<>> /\ buffer' = <<>>
  /\ pc' = "read"
  /\ UNCHANGED <<callVars, aborted, caught, config, providerCalls, fetchCalls, response,
                 bodyVars, pos, lines, idx, yielded, exit,
                 result, error>>

\* A successful response without a body: response.body?.getReader() is
\* undefined and the operation throws (NoBodyAsEmpty: a missing body taken
\* for an empty stream).
NoBodyAsEmpty ==
  /\ pc = "response" /\ op = "chatStream" /\ Ok(response.status)
  /\ ~response.hasBody
  /\ conversationId' = HeaderGet(response.headers, ConvHeader)
  /\ messageId' = HeaderGet(response.headers, MsgHeader)
  /\ pc' = "done" /\ exit' = "normal"
  /\ result' = [conversationId |-> conversationId', messageId |-> messageId']
  /\ UNCHANGED <<callVars, aborted, caught, config, providerCalls, fetchCalls, response,
                 bodyVars, decodeVars, lockVars, yielded, error>>
NoBody ==
  /\ pc = "response" /\ op = "chatStream" /\ Ok(response.status)
  /\ ~response.hasBody
  /\ conversationId' = HeaderGet(response.headers, ConvHeader)
  /\ messageId' = HeaderGet(response.headers, MsgHeader)
  /\ Fail(HalapiError("Response body is not readable", NoStatus))
  /\ UNCHANGED <<callVars, aborted, caught, config, providerCalls, fetchCalls, response,
                 bodyVars, decodeVars, lockVars, yielded, exit>>

\* reader.read() resolving with a chunk of k bytes: decode, append, split,
\* keep the last segment, and enter the for loop.
ReadChunk ==
  /\ pc = "read" /\ pos < Len(Body)
  /\ ~aborted
  /\ caught' = "none"
  /\ \E k \in 1..(Len(Body) - pos) :
       LET chunk == SubSeq(Body, pos + 1, pos + k)
           d == Decode(pending, chunk)
           segs == Split(buffer \o d.text)
       IN /\ pos' = pos + k
          /\ pending' = d.pending
          /\ lines' = Front(segs)
          /\ buffer' = Pop(segs)
          /\ idx' = 1
          /\ pc' = AfterLine(Front(segs), 1)
  /\ UNCHANGED <<callVars, aborted, config, providerCalls, fetchCalls, response,
                 bodyVars, idVars, lockVars, yielded, exit, result,
                 error>>

\* reader.read() resolving with done: break, finally, return.
ReadDone ==
  /\ pc = "read" /\ pos = Len(Body)
  /\ ~aborted
  /\ caught' = "none"
  /\ ReleaseLock
  /\ exit' = "normal"
  /\ result' = StreamResult
  /\ pc' = "done"
  /\ UNCHANGED <<callVars, aborted, config, providerCalls, fetchCalls, response,
                 bodyVars, decodeVars, idVars, yielded, error>>

\* reader.read() rejecting (the signal aborted the request, or the
\* connection broke): finally, and the rejection reaches the consumer
\* (ReadRejectsAbortSwallowed: an abort taken for the end of the stream).
ReadRejectsAbortSwallowed ==
  /\ pc = "read"
  /\ caught' = "none"
  /\ ReleaseLock
  /\ IF aborted
     THEN exit' = "normal" /\ pc' = "done" /\ result' = StreamResult
          /\ UNCHANGED error
     ELSE exit' = "readError"
          /\ Fail(OtherError(RejectionKind, "read failed"))
  /\ UNCHANGED <<callVars, aborted, config, providerCalls, fetchCalls,
                 response, bodyVars, decodeVars, idVars, yielded>>
ReadRejects ==
  /\ pc = "read"
  /\ caught' = "none"
  /\ ReleaseLock
  /\ exit' = "readError"
  /\ Fail(OtherError(RejectionKind, "read failed"))
  /\ UNCHANGED <<callVars, aborted, config, providerCalls, fetchCalls, response,
                 bodyVars, decodeVars, idVars, yielded>>

\* for (const line of lines): a line without the prefix.
SkipLine ==
  /\ pc = "lines"
  /\ ~StartsWithData(lines[idx])
  /\ caught' = "none"
  /\ idx' = idx + 1
  /\ pc' = AfterLine(lines, idx + 1)
  /\ UNCHANGED <<callVars, aborted, config, providerCalls, fetchCalls, response,
                 bodyVars, pos, pending, buffer, lines, idVars, lockVars,
                 yielded, exit, result, error>>

\* A data line whose payload JSON.parse rejects: catch, console.warn, and
\* the for loop goes on.
ParseFails ==
  /\ pc = "lines"
  /\ StartsWithData(lines[idx])
  /\ ~JSONParse(Slice(lines[idx])).ok
  /\ caught' = "SyntaxError"
  /\ idx' = idx + 1
  /\ pc' = AfterLine(lines, idx + 1)
  /\ UNCHANGED <<callVars, aborted, config, providerCalls, fetchCalls, response,
                 bodyVars, pos, pending, buffer, lines, idVars, lockVars,
                 yielded, exit, result, error>>

\* A data line whose payload parses: yield event.
YieldEvent ==
  /\ pc = "lines"
  /\ StartsWithData(lines[idx])
  /\ JSONParse(Slice(lines[idx])).ok
  /\ caught' = "none"
  /\ yielded' = Append(yielded, JSONParse(Slice(lines[idx])).event)
  /\ pc' = "yielded"
  /\ UNCHANGED <<callVars, aborted, config, providerCalls, fetchCalls, response,
                 bodyVars, decodeVars, idVars, lockVars, exit,
                 result, error>>

\* The consumer's next() at a yielded event: the for loop goes on.
ConsumerNext ==
  /\ pc = "yielded"
  /\ idx' = idx + 1
  /\ pc' = AfterLine(lines, idx + 1)
  /\ UNCHANGED <<callVars, aborted, caught, config, providerCalls, fetchCalls, response,
                 bodyVars, pos, pending, buffer, lines, idVars, lockVars,
                 yielded, exit, result, error>>

\* The consumer's throw(e) at a yielded event: the yield sits inside the
\* try whose catch handles JSON.parse failures, so e is caught there
\* (console.warn) and the for loop goes on (ConsumerThrowUncaught: the
\* yield outside that try, e leaving the generator through finally).
ConsumerThrowUncaught ==
  /\ pc = "yielded"
  /\ ReleaseLock
  /\ exit' = "thrown"
  /\ Fail(OtherError("ConsumerError", "thrown by the consumer"))
  /\ UNCHANGED <<callVars, aborted, caught, config, providerCalls,
                 fetchCalls, response, bodyVars, decodeVars, idVars,
                 yielded>>
ConsumerThrow ==
  /\ pc = "yielded"
  /\ caught' = "thrown"
  /\ idx' = idx + 1
  /\ pc' = AfterLine(lines, idx + 1)
  /\ UNCHANGED <<callVars, aborted, config, providerCalls, fetchCalls, response,
                 bodyVars, pos, pending, buffer, lines, idVars, lockVars,
                 yielded, exit, result, error>>

\* The consumer's return() at a yielded event (a break out of for await):
\* finally runs and the generator is finished (ConsumerReturnIgnored: the
\* for loop going on as after next()).
ConsumerReturnIgnored ==
  /\ pc = "yielded"
  /\ exit' = "return"
  /\ idx' = idx + 1
  /\ pc' = AfterLine(lines, idx + 1)
  /\ UNCHANGED <<callVars, aborted, caught, config, providerCalls, fetchCalls, response,
                 bodyVars, pos, pending, buffer, lines, idVars, lockVars,
                 yielded, result, error>>
ConsumerReturn ==
  /\ pc = "yielded"
  /\ ReleaseLock
  /\ exit' = "return"
  /\ pc' = "done"
  /\ UNCHANGED <<callVars, aborted, caught, config, providerCalls, fetchCalls, response,
                 bodyVars, decodeVars, idVars, yielded, result, error>>

\* The consumer's return() before its first next(): no statement of the
\* generator runs.
ReturnBeforeStart ==
  /\ pc = "start" /\ op = "chatStream"
  /\ exit' = "return"
  /\ pc' = "done"
  /\ UNCHANGED <<callVars, aborted, caught, config, providerCalls, fetchCalls, response,
                 bodyVars, decodeVars, idVars, lockVars, yielded,
                 result, error>>

\* ---------------------------------------------------------- the accessors
\* What an accessor makes of a successful response's body.  getConversations
\* answers an empty text itself; getConversations and getConversation wrap a
\* JSON.parse failure in a plain Error; the others return response.json(),
\* whose rejection is a SyntaxError.
ParsesAsJson(text) == text \in {"json", "jsonWithErrorMessage"}

AccessorOutcome(o, text) ==
  IF o = "getConversations" /\ text = "empty"
  THEN [ok |-> TRUE, value |-> "emptyList", error |-> NoError]
  ELSE IF ParsesAsJson(text)
  THEN [ok |-> TRUE, value |-> text, error |-> NoError]
  ELSE IF o \in {"getConversations", "getConversation"}
  THEN [ok |-> FALSE, value |-> NULL,
        error |-> OtherError("Error", "Invalid JSON response from API")]
  ELSE [ok |-> FALSE, value |-> NULL,
        error |-> OtherError("SyntaxError", "response.json() failed")]

AccessorBody ==
  /\ pc = "response" /\ op # "chatStream" /\ Ok(response.status)
  /\ LET out == AccessorOutcome(op, response.text) IN
       IF out.ok
       THEN pc' = "done" /\ result' = out.value /\ UNCHANGED error
       ELSE Fail(out.error)
  /\ UNCHANGED <<callVars, aborted, caught, config, providerCalls, fetchCalls, response,
                 bodyVars, decodeVars, idVars, lockVars, yielded,
                 exit>>

\* ------------------------------------------------------- the specification
Next ==
  \/ ValidateIsbns
  \/ ResolveConfig
  \/ ProviderRejects
  \/ Fetch
  \/ FetchRejects
  \/ HandleErrorResponse
  \/ OpenReader
  \/ NoBody
  \/ ReadChunk
  \/ ReadDone
  \/ ReadRejects
  \/ SkipLine
  \/ ParseFails
  \/ YieldEvent
  \/ ConsumerNext
  \/ ConsumerThrow
  \/ ConsumerReturn
  \/ ReturnBeforeStart
  \/ AccessorBody
  \/ Abort

Spec == Init /\ [][Next]_vars

\* ------------------------------------------------------------ properties
IsPrefix(a, b) == Len(a) <= Len(b) /\ a = SubSeq(b, 1, Len(a))

Range(f) == {f[i] : i \in DOMAIN f}

\* The events of the records among the lines a body was built from, in the
\* order of the lines.
RECURSIVE ExpectedEvents(_)
ExpectedEvents(ks) ==
  IF ks = <<>> THEN <<>>
  ELSE IF Head(ks) \in RecordKinds
       THEN <<KindTag(Head(ks))>> \o ExpectedEvents(Tail(ks))
       ELSE ExpectedEvents(Tail(ks))

\* The events a sequence of complete lines decodes to.
RECURSIVE EventsOfLines(_)
EventsOfLines(ls) ==
  IF ls = <<>> THEN <<>>
  ELSE IF StartsWithData(Head(ls)) /\ JSONParse(Slice(Head(ls))).ok
       THEN <<JSONParse(Slice(Head(ls))).event>> \o EventsOfLines(Tail(ls))
       ELSE EventsOfLines(Tail(ls))

\* The bytes delivered so far, and what they decode to when they arrive as
\* one single chunk.
Delivered == SubSeq(Body, 1, pos)
SingleChunkEvents(bytes) ==
  LET segs == Split(DecodeFrom(<<>>, bytes, <<>>).text)
  IN EventsOfLines(SubSeq(segs, 1, Len(segs) - 1))

\* The lines of the current chunk the for loop has not dealt with yet.
LinesLeft ==
  CASE pc = "lines"   -> SubSeq(lines, idx, Len(lines))
    [] pc = "yielded" -> SubSeq(lines, idx + 1, Len(lines))
    [] OTHER          -> <<>>

Streaming == op = "chatStream" /\ acquired = 1
OnlyRecords == \A i \in DOMAIN kinds : kinds[i] \in RecordKinds

\* C1: for a body made only of well-formed newline-terminated data
\* records, whatever the chunks, the events yielded so far are the first
\* events of the records, in order, and once the stream has ended normally
\* they are exactly one event per record.
C1_OneEventPerRecord ==
  (Streaming /\ OnlyRecords /\ tail = "none") =>
     /\ IsPrefix(yielded, ExpectedEvents(kinds))
     /\ exit = "normal" =>
          (yielded = ExpectedEvents(kinds) /\ Len(yielded) = Len(kinds))

C1_Witness ==
  /\ Streaming /\ OnlyRecords /\ tail = "none"
  /\ exit = "normal"
  /\ kinds = <<"T", "D">>
  /\ yielded = <<"U+E9", "D">>

\* C2: the events yielded depend only on the concatenation of the chunks:
\* while the decoder runs, the events yielded together with those of the
\* lines still waiting in the current chunk are the events the delivered
\* bytes give when they arrive as one chunk; so are the events yielded when
\* the stream has ended normally.
C2_ChunkingIndependent ==
  (Streaming /\ exit \in {"none", "normal"}) =>
     yielded \o EventsOfLines(LinesLeft) = SingleChunkEvents(Delivered)

\* The first record yielded, and the chunk that brought it ending in the
\* middle of the two-byte character of the second record.
C2_Witness ==
  /\ Streaming
  /\ kinds = <<"D", "T">>
  /\ pc = "read" /\ yielded = <<"D">>
  /\ pending = <<"C3">>
  /\ buffer = DataPrefix \o <<"{">>

\* C3: a newline-terminated data record whose payload is not JSON is not
\* yielded, raises nothing and does not end the stream: for a body holding
\* such a record, the events yielded are always the first events of its
\* well-formed records, the only failure is a rejected read, and at the
\* normal end every well-formed record has been yielded, in order.
HasBad == \E i \in DOMAIN kinds : kinds[i] = "bad"
C3_MalformedSkipped ==
  (Streaming /\ HasBad) =>
     /\ IsPrefix(yielded, ExpectedEvents(kinds))
     /\ \A i \in DOMAIN yielded : yielded[i] \in EventTags
     /\ pc = "failed" => (exit = "readError" /\ error.kind # "SyntaxError")
     /\ pc # "failed" => error = NoError
     /\ exit = "normal" => yielded = ExpectedEvents(kinds)

C3_Witness ==
  /\ Streaming /\ exit = "normal"
  /\ kinds = <<"bad", "T">>
  /\ yielded = <<"U+E9">>
  /\ error = NoError

\* C4: the read lock is released exactly once on every exit path of a call
\* that acquired it, and not before the call ends.
Ended == pc \in {"done", "failed"}
C4_LockReleasedOnce ==
  /\ acquired <= 1 /\ released <= acquired
  /\ locked <=> (acquired = 1 /\ released = 0)
  /\ (Ended /\ acquired = 1) => (released = 1 /\ ~locked)
  /\ released = 1 => (Ended /\ exit \in {"normal", "readError", "return"})
  /\ (~Ended /\ acquired = 1) => locked

C4_Witness ==
  /\ pc = "done" /\ exit = "return"
  /\ acquired = 1 /\ released = 1 /\ ~locked
  /\ yielded # <<>>

\* C5: once the stream is cancelled (return() at a yielded event, or a
\* rejected read), no event is yielded and no chunk is read any more.
Cancelled == exit \in {"return", "readError"}
C5_NothingAfterCancel ==
  [][Cancelled =>
       (yielded' = yielded /\ pos' = pos /\ pc' = pc /\ Cancelled')]_vars

\* Cancelled by return() at the first event of a chunk that holds a second
\* complete record.
C5_Witness ==
  /\ exit = "return" /\ acquired = 1
  /\ Len(yielded) = 1
  /\ idx < Len(lines)
  /\ EventsOfLines(SubSeq(lines, idx + 1, Len(lines))) # <<>>

\* C6: at the end of the stream what is left in the buffer is discarded: a
\* final record without its newline is never yielded, and the stream still
\* completes with its StreamResult.
TailText == DecodeFrom(<<>>, TailBytes(tail), <<>>).text
C6_UnterminatedTailDropped ==
  (Streaming /\ tail # "none") =>
     /\ Len(yielded) <= Len(ExpectedEvents(kinds))
     /\ exit = "normal" =>
          /\ yielded = ExpectedEvents(kinds)
          /\ buffer = TailText
          /\ pc = "done" /\ error = NoError
          /\ DOMAIN result = {"conversationId", "messageId"}

C6_Witness ==
  /\ Streaming /\ tail = "T" /\ exit = "normal"
  /\ kinds = <<"D">>
  /\ yielded = <<"D">>
  /\ JSONParse(Slice(buffer)).ok

\* C7: after a normal end the result holds exactly the values of the two
\* identifier headers of the response (null for an absent one), whatever the
\* body held; the captured values are those from the first read on.
HeaderOrNull(name) ==
  IF name \in DOMAIN response.headers THEN response.headers[name] ELSE NULL
C7_ResultFromHeaders ==
  /\ Streaming =>
       (conversationId = HeaderOrNull(ConvHeader)
        /\ messageId = HeaderOrNull(MsgHeader))
  /\ (op = "chatStream" /\ exit = "normal") =>
       result = [conversationId |-> HeaderOrNull(ConvHeader),
                 messageId |-> HeaderOrNull(MsgHeader)]

C7_Witness ==
  /\ op = "chatStream" /\ exit = "normal"
  /\ "D" \in Range(yielded)
  /\ ConvHeader \notin DOMAIN response.headers
  /\ result = [conversationId |-> NULL, messageId |-> "m9"]

\* C8: on a response whose status is outside 200..299 chatStream acquires
\* no reader, reads nothing, yields nothing, and fails with a HalapiError
\* carrying the status.
NonSuccess ==
  /\ op = "chatStream" /\ response # NoResponse
  /\ (response.status < 200 \/ response.status > 299)
SuccessWithoutBody ==
  /\ op = "chatStream" /\ response # NoResponse
  /\ response.status >= 200 /\ response.status <= 299
  /\ ~response.hasBody
C9_NoBodyFails ==
  SuccessWithoutBody =>
     /\ pc \in {"response", "failed"}
     /\ yielded = <<>>
     /\ acquired = 0 /\ ~locked
     /\ pc = "failed" => (error.kind = "HalapiError" /\ result = NULL)

C9_Witness ==
  /\ SuccessWithoutBody /\ pc = "failed"
  /\ error = HalapiError("Response body is not readable", NoStatus)

\* C10: in every operation, a provider that returns an empty apiToken makes
\* the operation fail with the configuration error, and fetchFn is never
\* called.
EmptyToken == config # NoConfig /\ config.apiToken = ""
C10_NoTokenNoFetch ==
  EmptyToken =>
     /\ fetchCalls = 0 /\ response = NoResponse
     /\ pc = "failed"
     /\ error = HalapiError("API token not configured", NoStatus)

C10_Witness ==
  /\ EmptyToken /\ pc = "failed"
  /\ op = "getBookPresentations" /\ isbnCount = MaxIsbn
  /\ fetchCalls = 0

\* C11: getBookPresentations calls fetchFn only for a list of 1 to 100
\* ISBNs: with 0 or more than 100 it fails locally, with neither the
\* provider nor fetchFn called; with 1 to 100 and a valid configuration
\* fetchFn is called exactly once.
Presentations == op = "getBookPresentations"
IsbnInRange == isbnCount >= 1 /\ isbnCount <= 100
C11_IsbnBounds ==
  Presentations =>
     /\ fetchCalls <= 1
     /\ ~IsbnInRange =>
          /\ fetchCalls = 0 /\ providerCalls = 0
          /\ pc \in {"start", "failed"}
          /\ pc = "failed" =>
               (error.kind = "HalapiError" /\ error.statusCode = NoStatus)
     /\ (IsbnInRange /\ config # NoConfig /\ config.apiToken # ""
         /\ pc \in {"response", "done", "failed"}) => fetchCalls = 1

\* 101 ISBNs: the local failure.
C11_Witness ==
  /\ Presentations /\ isbnCount = 101
  /\ pc = "failed" /\ fetchCalls = 0
  /\ error = HalapiError("Maximum 100 ISBN-13s allowed per request", NoStatus)

\* C12: every error a client operation lets the caller see is a
\* HalapiError; stated for the outcome the claim names, an accessor whose
\* response has a success status.
AccessorSucceededStatus ==
  /\ op # "chatStream" /\ response # NoResponse
  /\ response.status >= 200 /\ response.status <= 299
C12_OnlyHalapiError ==
  (AccessorSucceededStatus /\ pc = "failed") => error.kind = "HalapiError"

\* C13 as claimed: a stream whose signal fired while it was streaming
\* ends without an error raised by chatStream.
AbortedStreaming == op = "chatStream" /\ acquired = 1 /\ aborted
Unhandled ==
  IF idx = 0 \/ idx > Len(lines) THEN <<>> ELSE SubSeq(lines, idx, Len(lines))
C14_PullDriven ==
  [][/\ pos' # pos =>
          (pc = "read" /\ yielded' = yielded
           /\ yielded = SingleChunkEvents(Delivered))
     /\ pc' = "read" => Unhandled' = <<>>
    ]_vars

\* The first event of a chunk handed out, its second event still waiting,
\* and bytes left that no read has asked for.
C14_Witness ==
  /\ Streaming /\ pc = "yielded"
  /\ idx = 1 /\ Len(lines) = 2
  /\ EventsOfLines(<<lines[2]>>) # <<>>
  /\ pos < Len(Body)

\* C15: a newline-terminated line without the 'data: ' prefix gives no
\* event, is not caught as an error, and leaves the other lines alone: the
\* events yielded are those of the body without such lines.
UnprefixedKinds == {"comment", "empty", "nospace"}
HasUnprefixed == \E i \in DOMAIN kinds : kinds[i] \in UnprefixedKinds
IsPrefixedKind(kind) == kind \notin UnprefixedKinds
BodyWithoutUnprefixed == BodyBytes(SelectSeq(kinds, IsPrefixedKind), tail)
C15_UnprefixedIgnored ==
  (Streaming /\ HasUnprefixed) =>
     /\ IsPrefix(yielded, SingleChunkEvents(BodyWithoutUnprefixed))
     /\ exit = "normal" => yielded = SingleChunkEvents(BodyWithoutUnprefixed)
     /\ pc = "failed" => exit = "readError"
     /\ (pc \in {"lines", "read"} /\ idx >= 2
         /\ lines[idx - 1] \in {LineBytes(k) : k \in UnprefixedKinds})
          => caught = "none"

C15_Witness ==
  /\ Streaming /\ exit = "normal"
  /\ kinds = <<"comment", "T">>
  /\ yielded = <<"U+E9">>
  /\ error = NoError

\* C16: an exception the consumer injects at a yielded event is caught by
\* the catch block of the for loop: it never leaves the generator, the
\* lock stays held, and the decoder goes on with the next line of the
\* chunk or the next read.
C16_ThrowIsCaught ==
  /\ error.kind # "ConsumerError"
  /\ exit # "thrown"
  /\ caught = "thrown" =>
       /\ pc \in {"lines", "read"}
       /\ pc = "read" <=> idx > Len(lines)
       /\ locked /\ released = 0
       /\ exit = "none" /\ error = NoError
       /\ idx >= 2 /\ JSONParse(Slice(lines[idx - 1])).ok
       /\ yielded # <<>>

\* The exception injected at the first event of a chunk of two lines.
C16_Witness ==
  /\ caught = "thrown" /\ pc = "lines"
  /\ idx = 2 /\ Len(lines) = 2
  /\ locked /\ released = 0

====
